---------------------------- MODULE Spec2Model ----------------------------
(***************************************************************************)
(* The parked transaction sub-pool (crates/transaction-pool/src/pool/      *)
(* parked.rs): ParkedPool<BasefeeOrd<T>> as a state machine.               *)
(*                                                                         *)
(* The pool state is the four fields of the struct.  Every public method   *)
(* is one action; a method's loops are unrolled by RECURSIVE operators     *)
(* inside that one action.  The variables op, ret and repeated record the  *)
(* last call, what it returned, and whether it repeated the call before    *)
(* it; pc tells whether a panic has unwound the caller; before keeps the   *)
(* pool of before an add_transaction for as long as the only call since   *)
(* is the removal of the id it added.                                      *)
(***************************************************************************)
EXTENDS Integers, Sequences, FiniteSets, TLC

VARIABLES
    submission_id,    \* ParkedPool::submission_id
    by_id,            \* ParkedPool::by_id   : TransactionId -> entry
    best,             \* ParkedPool::best    : set of entries, unique up to cmp
    size_of,          \* ParkedPool::size_of
    overflow_checks,  \* the build profile: TRUE panics on integer overflow
    pc,               \* "ready", or "panicked" once a call has panicked
    op,               \* the last call: its name and its arguments
    ret,              \* what the last call returned (a Vec; Option as 0/1 items)
    repeated,         \* the last call has the name and arguments of the one before
    stats,            \* truncate_pool's loop: iterations made, drop underflowed
    before            \* <<pool>> before the add_transaction the last call made or
                      \* undid (add_transaction(t) or, right after it,
                      \* remove_transaction(t.id())); <<>> after any other call

vars ==
    <<submission_id, by_id, best, size_of, overflow_checks, pc, op, ret, repeated,
      stats, before>>

---------------------------------------------------------------------------
(* Bounds of the model.                                                    *)

MaxSender == 1
MaxNonce == 2
MaxFee == 2
MaxSize == 2
MaxAdds == 3
UsizeBits == 8
U64Bits == 8
MaxTimestamp == 2

Senders == 0..MaxSender
Nonces == 0..MaxNonce
Fees == 1..MaxFee
Basefees == 0..(MaxFee + 1)
MaxTxsLimits == 0..MaxAdds
MaxSizeLimits == {0, MaxAdds * MaxSize}

\* usize and u64 arithmetic wraps at these moduli (the widths are scaled down:
\* only the wrap-around matters, and a vector is never that long)
UsizeModulus == 2 ^ UsizeBits
U64Modulus == 2 ^ U64Bits

TransactionIds == Senders \X Nonces

\* ValidPoolTransaction, as far as the pool reads it
ValidPoolTransaction(sender, nonce, max_fee_per_gas, size) ==
    [sender |-> sender, nonce |-> nonce, max_fee_per_gas |-> max_fee_per_gas,
     size |-> size]

\* The transactions handed to the pool: one for every sender, nonce and fee.
\* The size is fixed by the nonce and the fee, so that transactions of
\* different sizes meet in one pool.
Transactions ==
    {ValidPoolTransaction(s, n, f, 1 + ((n + f) % MaxSize)) :
        s \in Senders, n \in Nonces, f \in Fees}

---------------------------------------------------------------------------
(* Identifiers and orderings.                                              *)

\* ValidPoolTransaction::id
TxId(tx) == <<tx.sender, tx.nonce>>

\* Ord for TransactionId: sender first, nonce second (the BTreeMap key order)
TransactionId_lt(a, b) == a[1] < b[1] \/ (a[1] = b[1] /\ a[2] < b[2])

\* Ordering values
Less == "Less"
Equal == "Equal"
Greater == "Greater"

\* u64/u128 cmp
IntCmp(a, b) == IF a < b THEN Less ELSE IF a > b THEN Greater ELSE Equal

\* Ord for BasefeeOrd
BasefeeOrd_cmp(a, b) == IntCmp(a.max_fee_per_gas, b.max_fee_per_gas)

\* (mutant) the entry order without its submission_id tie-break
ParkedPoolTransaction_cmp_NoTieBreak(a, b) ==
    BasefeeOrd_cmp(a.transaction, b.transaction)

\* (mutant) the entry order with the tie-break on submission_id not reversed
ParkedPoolTransaction_cmp_NewerIsGreater(a, b) ==
    LET c == BasefeeOrd_cmp(a.transaction, b.transaction)
    IN  IF c # Equal THEN c ELSE IntCmp(a.submission_id, b.submission_id)

\* Ord for ParkedPoolTransaction: transaction first, then submission_id reversed
ParkedPoolTransaction_cmp(a, b) ==
    LET c == BasefeeOrd_cmp(a.transaction, b.transaction)
    IN  IF c # Equal THEN c ELSE IntCmp(b.submission_id, a.submission_id)

\* Ord for QueuedOrd: the first comparison has self on both sides
QueuedOrd_cmp(a, b) ==
    LET c == IntCmp(a.max_fee_per_gas, a.max_fee_per_gas)
    IN  IF c # Equal THEN c ELSE IntCmp(b.timestamp, a.timestamp)

\* (mutant) the sender records ordered without the reversal
SubmissionSenderId_cmp_NotReversed(a, b) == IntCmp(a.submission_id, b.submission_id)

\* Ord for SubmissionSenderId: reversed on submission_id
SubmissionSenderId_cmp(a, b) == IntCmp(b.submission_id, a.submission_id)

---------------------------------------------------------------------------
(* The containers.                                                         *)

\* BTreeMap iteration: the keys in ascending order
RECURSIVE KeysInOrder(_)
KeysInOrder(S) ==
    IF S = {} THEN <<>>
    ELSE LET m == CHOOSE x \in S : \A y \in S \ {x} : TransactionId_lt(x, y)
         IN  <<m>> \o KeysInOrder(S \ {m})

\* BTreeMap::insert
MapInsert(m, k, v) == [x \in DOMAIN m \cup {k} |-> IF x = k THEN v ELSE m[x]]

\* BTreeMap::remove
MapRemove(m, k) == [x \in DOMAIN m \ {k} |-> m[x]]

\* BTreeSet::insert: an element comparing Equal to one present is not inserted
SetInsert(s, e) ==
    IF \E x \in s : ParkedPoolTransaction_cmp(x, e) = Equal THEN s ELSE s \cup {e}

\* (mutant) a removal from best that goes by the fee alone
SetRemove_ByFee(s, e) ==
    {x \in s : BasefeeOrd_cmp(x.transaction, e.transaction) # Equal}

\* BTreeSet::remove: removes the element comparing Equal
SetRemove(s, e) == {x \in s : ParkedPoolTransaction_cmp(x, e) # Equal}

\* the entries of by_id
Entries(m) == {m[k] : k \in DOMAIN m}

\* the transaction ids of sender s in the map m
IdsOf(m, s) == {k \in DOMAIN m : k[1] = s}

\* the senders with an entry in the map m
SendersOf(m) == {k[1] : k \in DOMAIN m}

\* The pool as one value
Pool == [submission_id |-> submission_id, by_id |-> by_id,
         best |-> best, size_of |-> size_of]

\* SizeTracker's `+=` and `-=` (pool/size.rs): a plain counter of bytes.  The
\* counter is an integer here, so a decrement below zero shows as a negative
\* value instead of wrapping.
SizeTracker_add(size_of_, n) == size_of_ + n
SizeTracker_sub(size_of_, n) == size_of_ - n

\* ParkedPool::len
len(p) == Cardinality(DOMAIN p.by_id)

\* ParkedPool::size
size(p) == p.size_of


---------------------------------------------------------------------------
(* ParkedPool: the methods, as functions from a pool value to a result.    *)

\* ParkedPool::default
default ==
    [submission_id |-> 0, by_id |-> [k \in {} |-> k], best |-> {}, size_of |-> 0]

\* (mutant) next_id that hands out the counter without advancing it
next_id_NoAdvance(p) == [id |-> p.submission_id, pool |-> p]

\* ParkedPool::next_id: post-increment, wrapping
next_id(p) ==
    [id |-> p.submission_id,
     pool |-> [p EXCEPT !.submission_id = (p.submission_id + 1) % U64Modulus]]

\* (mutant) add_transaction that replaces a resident transaction of the same id
add_transaction_Replaces(p, tx) ==
    LET n == next_id(p)
        transaction == [submission_id |-> n.id, transaction |-> tx]
    IN  [pool |-> [submission_id |-> n.pool.submission_id,
                   by_id |-> MapInsert(p.by_id, TxId(tx), transaction),
                   best |-> SetInsert(p.best, transaction),
                   size_of |-> SizeTracker_add(p.size_of, tx.size)],
         panicked |-> FALSE]

\* (mutant) add_transaction that stamps the entry with the advanced counter
add_transaction_PreIncrement(p, tx) ==
    LET id == TxId(tx)
    IN  IF id \in DOMAIN p.by_id
        THEN [pool |-> p, panicked |-> TRUE]
        ELSE LET n == next_id(p)
                 transaction == [submission_id |-> n.pool.submission_id,
                                 transaction |-> tx]
             IN  [pool |-> [submission_id |-> n.pool.submission_id,
                            by_id |-> MapInsert(p.by_id, id, transaction),
                            best |-> SetInsert(p.best, transaction),
                            size_of |-> SizeTracker_add(p.size_of, tx.size)],
                  panicked |-> FALSE]

\* ParkedPool::add_transaction
add_transaction(p, tx) ==
    LET id == TxId(tx)
    IN  IF id \in DOMAIN p.by_id
        THEN [pool |-> p, panicked |-> TRUE]
        ELSE LET n == next_id(p)
                 transaction == [submission_id |-> n.id, transaction |-> tx]
             IN  [pool |-> [submission_id |-> n.pool.submission_id,
                            by_id |-> MapInsert(p.by_id, id, transaction),
                            best |-> SetInsert(p.best, transaction),
                            size_of |-> SizeTracker_add(p.size_of, tx.size)],
                  panicked |-> FALSE]

\* (mutant) remove_transaction that forgets the size bookkeeping
remove_transaction_KeepsSize(p, id) ==
    IF id \notin DOMAIN p.by_id
    THEN [pool |-> p, ret |-> <<>>]
    ELSE [pool |-> [p EXCEPT !.by_id = MapRemove(p.by_id, id),
                             !.best = SetRemove(p.best, p.by_id[id])],
          ret |-> <<p.by_id[id].transaction>>]

\* (mutant) remove_transaction that books a removal for an absent id
remove_transaction_AbsentBooked(p, id) ==
    IF id \notin DOMAIN p.by_id
    THEN [pool |-> [p EXCEPT !.size_of = SizeTracker_sub(p.size_of, 1)], ret |-> <<>>]
    ELSE [pool |-> [submission_id |-> p.submission_id,
                    by_id |-> MapRemove(p.by_id, id),
                    best |-> SetRemove(p.best, p.by_id[id]),
                    size_of |-> SizeTracker_sub(p.size_of,
                                                p.by_id[id].transaction.size)],
          ret |-> <<p.by_id[id].transaction>>]

\* ParkedPool::remove_transaction; ret is <<>> for None, <<tx>> for Some(tx)
remove_transaction(p, id) ==
    IF id \notin DOMAIN p.by_id
    THEN [pool |-> p, ret |-> <<>>]
    ELSE LET tx == p.by_id[id]
         IN  [pool |-> [submission_id |-> p.submission_id,
                        by_id |-> MapRemove(p.by_id, id),
                        best |-> SetRemove(p.best, tx),
                        size_of |-> SizeTracker_sub(p.size_of, tx.transaction.size)],
              ret |-> <<tx.transaction>>]

\* (mutant) the range scan without its take_while
TakeWhileSender_All(keys, sender) == keys

\* Iterator::take_while(|(other, _)| sender == other.sender)
RECURSIVE TakeWhileSender(_, _)
TakeWhileSender(keys, sender) ==
    IF keys = <<>> \/ Head(keys)[1] # sender THEN <<>>
    ELSE <<Head(keys)>> \o TakeWhileSender(Tail(keys), sender)

\* BTreeMap::range((sender.start_bound(), Unbounded)): the keys from (sender, 0) on
RangeFrom(p, sender) ==
    SelectSeq(KeysInOrder(DOMAIN p.by_id),
              LAMBDA k : ~TransactionId_lt(k, <<sender, 0>>))

\* ParkedPool::get_txs_by_sender
get_txs_by_sender(p, sender) ==
    LET run == TakeWhileSender(RangeFrom(p, sender), sender)
    IN  [i \in 1..Len(run) |-> TxId(p.by_id[run[i]].transaction)]

\* (mutant) the fold keeping each sender's first submission id
RECURSIVE FoldSenders_KeepsFirst(_, _, _)
FoldSenders_KeepsFirst(p, keys, set) ==
    IF keys = <<>> THEN set
    ELSE LET tx == p.by_id[Head(keys)]
             fresh == [sender_id |-> tx.transaction.sender,
                       submission_id |-> tx.submission_id]
             n == Len(set)
         IN  IF n > 0 /\ set[n].sender_id = tx.transaction.sender
             THEN FoldSenders_KeepsFirst(p, Tail(keys), set)
             ELSE FoldSenders_KeepsFirst(p, Tail(keys), Append(set, fresh))

\* (mutant) the fold pushing a record for every entry
RECURSIVE FoldSenders_PerEntry(_, _, _)
FoldSenders_PerEntry(p, keys, set) ==
    IF keys = <<>> THEN set
    ELSE LET tx == p.by_id[Head(keys)]
         IN  FoldSenders_PerEntry(p, Tail(keys),
                 Append(set, [sender_id |-> tx.transaction.sender,
                              submission_id |-> tx.submission_id]))

\* the fold of get_senders_by_submission_id over by_id in key order
RECURSIVE FoldSenders(_, _, _)
FoldSenders(p, keys, set) ==
    IF keys = <<>> THEN set
    ELSE LET tx == p.by_id[Head(keys)]
             fresh == [sender_id |-> tx.transaction.sender,
                       submission_id |-> tx.submission_id]
             n == Len(set)
         IN  IF n > 0
             THEN IF set[n].sender_id = tx.transaction.sender
                  THEN IF set[n].submission_id < tx.submission_id
                       THEN FoldSenders(p, Tail(keys),
                                [set EXCEPT ![n].submission_id = tx.submission_id])
                       ELSE FoldSenders(p, Tail(keys), set)
                  ELSE FoldSenders(p, Tail(keys), Append(set, fresh))
             ELSE FoldSenders(p, Tail(keys), Append(set, fresh))

\* insertion of x into a vector sorted ascending by SubmissionSenderId's Ord
RECURSIVE SortedInsert(_, _)
SortedInsert(sorted, x) ==
    IF sorted = <<>> THEN <<x>>
    ELSE IF SubmissionSenderId_cmp(x, Head(sorted)) = Less
         THEN <<x>> \o sorted
         ELSE <<Head(sorted)>> \o SortedInsert(Tail(sorted), x)

\* (mutant) BinaryHeap::into_vec in place of into_sorted_vec: the records as
\* they were collected
into_vec(v) == v

\* BinaryHeap::into_sorted_vec: ascending by the elements' Ord.  The records
\* of one pool have distinct submission ids unless the counter has wrapped.
RECURSIVE into_sorted_vec(_)
into_sorted_vec(v) ==
    IF v = <<>> THEN <<>>
    ELSE SortedInsert(into_sorted_vec(Tail(v)), Head(v))

\* ParkedPool::get_senders_by_submission_id
get_senders_by_submission_id(p) ==
    into_sorted_vec(FoldSenders(p, KeysInOrder(DOMAIN p.by_id), <<>>))

\* (mutant) the full branch's loop without its removed.push(tx)
RECURSIVE RemoveAll_NoPush(_, _, _)
RemoveAll_NoPush(p, list, removed) ==
    IF list = <<>> THEN [pool |-> p, removed |-> removed]
    ELSE RemoveAll_NoPush(remove_transaction(p, Head(list)).pool, Tail(list), removed)

\* `for txid in &list { if let Some(tx) = self.remove_transaction(txid) { .. } }`
RECURSIVE RemoveAll(_, _, _)
RemoveAll(p, list, removed) ==
    IF list = <<>> THEN [pool |-> p, removed |-> removed]
    ELSE LET r == remove_transaction(p, Head(list))
         IN  RemoveAll(r.pool, Tail(list), removed \o r.ret)

\* `drop -= 1` on a usize: at 0 a build with overflow checks panics, one
\* without wraps
DropDecrement(drop, checks) ==
    IF drop > 0 THEN [drop |-> drop - 1, panicked |-> FALSE, underflow |-> FALSE]
    ELSE IF checks THEN [drop |-> drop, panicked |-> TRUE, underflow |-> TRUE]
    ELSE [drop |-> UsizeModulus - 1, panicked |-> FALSE, underflow |-> TRUE]

\* `for txid in list.split_off(drop) { remove; push; drop -= 1 }`
RECURSIVE RemoveTail(_, _, _, _, _, _)
RemoveTail(p, list, removed, drop, underflow, checks) ==
    IF list = <<>>
    THEN [pool |-> p, removed |-> removed, drop |-> drop,
          panicked |-> FALSE, underflow |-> underflow]
    ELSE LET r == remove_transaction(p, Head(list))
             d == DropDecrement(drop, checks)
         IN  IF d.panicked
             THEN [pool |-> r.pool, removed |-> removed \o r.ret, drop |-> drop,
                   panicked |-> TRUE, underflow |-> TRUE]
             ELSE RemoveTail(r.pool, Tail(list), removed \o r.ret, d.drop,
                             underflow \/ d.underflow, checks)

\* Vec::split_off(at): the elements from index at (0-based) on
split_off(list, at) == SubSeq(list, at + 1, Len(list))

\* the `while drop > 0 && !sender_ids.is_empty()` loop of truncate_pool
RECURSIVE TruncateLoop(_, _, _, _, _, _, _)
TruncateLoop(p, sender_ids, drop, removed, iterations, underflow, checks) ==
    IF ~(drop > 0 /\ sender_ids # <<>>)
    THEN [pool |-> p, ret |-> removed, panicked |-> FALSE,
          iterations |-> iterations, underflow |-> underflow]
    ELSE LET sender_id == sender_ids[Len(sender_ids)].sender_id
             rest == SubSeq(sender_ids, 1, Len(sender_ids) - 1)
             list == get_txs_by_sender(p, sender_id)
         IN  IF Len(list) <= drop
             THEN LET r == RemoveAll(p, list, removed)
                  IN  TruncateLoop(r.pool, rest, drop - Len(list), r.removed,
                                   iterations + 1, underflow, checks)
             ELSE LET r == RemoveTail(p, split_off(list, drop), removed, drop,
                                      underflow, checks)
                  IN  IF r.panicked
                      THEN [pool |-> r.pool, ret |-> <<>>, panicked |-> TRUE,
                            iterations |-> iterations + 1, underflow |-> TRUE]
                      ELSE TruncateLoop(r.pool, rest, r.drop, r.removed,
                                        iterations + 1, r.underflow, checks)

\* (mutant) truncate_pool that also evicts when size() exceeds limit.max_size
truncate_pool_BySize(p, limit, checks) ==
    IF len(p) <= limit.max_txs /\ size(p) <= limit.max_size
    THEN [pool |-> p, ret |-> <<>>, panicked |-> FALSE,
          iterations |-> 0, underflow |-> FALSE]
    ELSE TruncateLoop(p, get_senders_by_submission_id(p),
                      IF len(p) > limit.max_txs THEN len(p) - limit.max_txs ELSE 1,
                      <<>>, 0, FALSE, checks)

\* ParkedPool::truncate_pool
truncate_pool(p, limit, checks) ==
    IF len(p) <= limit.max_txs
    THEN [pool |-> p, ret |-> <<>>, panicked |-> FALSE,
          iterations |-> 0, underflow |-> FALSE]
    ELSE TruncateLoop(p, get_senders_by_submission_id(p), len(p) - limit.max_txs,
                      <<>>, 0, FALSE, checks)

\* (mutant) the scan without the skip of a parked transaction's descendants
SkipSender_NoSkip(keys, sender) == keys

\* the inner `'this` loop of satisfy_base_fee_ids: skip the peeked entries of
\* the same sender
RECURSIVE SkipSender(_, _)
SkipSender(keys, sender) ==
    IF keys = <<>> \/ Head(keys)[1] # sender THEN keys
    ELSE SkipSender(Tail(keys), sender)

\* (mutant) the scan with the fee narrowed to 64 bits before the comparison
RECURSIVE SatisfyScan_Truncating(_, _, _, _)
SatisfyScan_Truncating(p, keys, basefee, transactions) ==
    IF keys = <<>> THEN transactions
    ELSE LET id == Head(keys)
             tx == p.by_id[id]
         IN  IF tx.transaction.max_fee_per_gas % (2 ^ U64Bits) < basefee
             THEN SatisfyScan_Truncating(p, SkipSender(Tail(keys), id[1]), basefee,
                                         transactions)
             ELSE SatisfyScan_Truncating(p, Tail(keys), basefee,
                                         Append(transactions, id))

\* the `while let Some((id, tx)) = iter.next()` loop of satisfy_base_fee_ids
RECURSIVE SatisfyScan(_, _, _, _)
SatisfyScan(p, keys, basefee, transactions) ==
    IF keys = <<>> THEN transactions
    ELSE LET id == Head(keys)
             tx == p.by_id[id]
         IN  IF tx.transaction.max_fee_per_gas < basefee
             THEN SatisfyScan(p, SkipSender(Tail(keys), id[1]), basefee, transactions)
             ELSE SatisfyScan(p, Tail(keys), basefee, Append(transactions, id))

\* (mutant) the scan selecting the transactions below the basefee
satisfy_base_fee_ids_Below(p, basefee) ==
    SelectSeq(KeysInOrder(DOMAIN p.by_id),
              LAMBDA k : p.by_id[k].transaction.max_fee_per_gas < basefee)

\* ParkedPool::satisfy_base_fee_ids
satisfy_base_fee_ids(p, basefee) ==
    SatisfyScan(p, KeysInOrder(DOMAIN p.by_id), basefee, <<>>)

\* (mutant) satisfy_base_fee_transactions that leaves out the first id
satisfy_base_fee_transactions_SkipsFirst(p, basefee) ==
    LET ids == satisfy_base_fee_ids(p, basefee)
    IN  [ret |-> [i \in 1..(Len(ids) - 1) |-> p.by_id[ids[i + 1]].transaction],
         panicked |-> FALSE]

\* ParkedPool::satisfy_base_fee_transactions
satisfy_base_fee_transactions(p, basefee) ==
    LET ids == satisfy_base_fee_ids(p, basefee)
        missing == \E j \in 1..Len(ids) : ids[j] \notin DOMAIN p.by_id
    IN  IF missing THEN [ret |-> <<>>, panicked |-> TRUE]
        ELSE [ret |-> [i \in 1..Len(ids) |-> p.by_id[ids[i]].transaction],
              panicked |-> FALSE]

\* (mutant) the removal loop stopping one id short
RECURSIVE RemoveExpect_SkipsLast(_, _, _)
RemoveExpect_SkipsLast(p, to_remove, removed) ==
    IF Len(to_remove) <= 1 THEN [pool |-> p, ret |-> removed, panicked |-> FALSE]
    ELSE LET r == remove_transaction(p, Head(to_remove))
         IN  RemoveExpect_SkipsLast(r.pool, Tail(to_remove), removed \o r.ret)

\* `for id in to_remove { removed.push(self.remove_transaction(&id).expect(..)) }`
RECURSIVE RemoveExpect(_, _, _)
RemoveExpect(p, to_remove, removed) ==
    IF to_remove = <<>> THEN [pool |-> p, ret |-> removed, panicked |-> FALSE]
    ELSE LET r == remove_transaction(p, Head(to_remove))
         IN  IF r.ret = <<>>
             THEN [pool |-> r.pool, ret |-> <<>>, panicked |-> TRUE]
             ELSE RemoveExpect(r.pool, Tail(to_remove), removed \o r.ret)

\* (mutant) enforce_basefee returning after the first removal
enforce_basefee_OnlyFirst(p, basefee) ==
    LET to_remove == satisfy_base_fee_ids(p, basefee)
    IN  IF to_remove = <<>> THEN [pool |-> p, ret |-> <<>>, panicked |-> FALSE]
        ELSE LET r == remove_transaction(p, Head(to_remove))
             IN  [pool |-> r.pool, ret |-> r.ret, panicked |-> FALSE]

\* ParkedPool::enforce_basefee
enforce_basefee(p, basefee) ==
    RemoveExpect(p, satisfy_base_fee_ids(p, basefee), <<>>)

---------------------------------------------------------------------------
(* The state machine: one action per call of a method.                     *)

NoId == <<>>
NoLimit == [max_txs |-> 0, max_size |-> 0]
NoStats == [iterations |-> 0, underflow |-> FALSE]

\* a call and its arguments
CallOf(name, id, basefee, limit) ==
    [name |-> name, id |-> id, basefee |-> basefee, limit |-> limit]

\* the effect of a call: the pool it leaves, what it returns, whether it panicked
Effect(call, r) ==
    /\ submission_id' = r.pool.submission_id
    /\ by_id' = r.pool.by_id
    /\ best' = r.pool.best
    /\ size_of' = r.pool.size_of
    /\ pc' = IF r.panicked THEN "panicked" ELSE "ready"
    /\ op' = call
    /\ ret' = r.ret
    /\ repeated' = (call = op)
    /\ stats' = [iterations |-> r.iterations, underflow |-> r.underflow]
    /\ before' = IF call.name = "add_transaction" THEN <<Pool>>
                 ELSE IF /\ call.name = "remove_transaction"
                         /\ op.name = "add_transaction"
                         /\ op.id = call.id
                      THEN before
                      ELSE <<>>
    /\ UNCHANGED overflow_checks

\* a result, with the fields a method does not have filled in
Result(p, r, panicked) ==
    [pool |-> p, ret |-> r, panicked |-> panicked,
     iterations |-> 0, underflow |-> FALSE]

Init ==
    /\ submission_id = default.submission_id
    /\ by_id = default.by_id
    /\ best = default.best
    /\ size_of = default.size_of
    /\ overflow_checks \in BOOLEAN
    /\ pc = "ready"
    /\ op = CallOf("default", NoId, 0, NoLimit)
    /\ ret = <<>>
    /\ repeated = FALSE
    /\ stats = NoStats
    /\ before = <<>>

AddTransaction ==
    /\ pc = "ready"
    /\ submission_id < MaxAdds
    /\ \E tx \in Transactions :
         \E r \in {add_transaction(Pool, tx)} :
            Effect(CallOf("add_transaction", TxId(tx), 0, NoLimit),
                   Result(r.pool, <<>>, r.panicked))

RemoveTransaction ==
    /\ pc = "ready"
    /\ \E id \in TransactionIds :
         \E r \in {remove_transaction(Pool, id)} :
            Effect(CallOf("remove_transaction", id, 0, NoLimit),
                   Result(r.pool, r.ret, FALSE))

TruncatePool ==
    /\ pc = "ready"
    /\ \E max_txs \in MaxTxsLimits, max_size \in MaxSizeLimits :
         \E limit \in {[max_txs |-> max_txs, max_size |-> max_size]} :
            \E r \in {truncate_pool(Pool, limit, overflow_checks)} :
               Effect(CallOf("truncate_pool", NoId, 0, limit), r)

EnforceBasefee ==
    /\ pc = "ready"
    /\ \E basefee \in Basefees :
         \E r \in {enforce_basefee(Pool, basefee)} :
            Effect(CallOf("enforce_basefee", NoId, basefee, NoLimit),
                   Result(r.pool, r.ret, r.panicked))

Next ==
    \/ AddTransaction
    \/ RemoveTransaction
    \/ TruncatePool
    \/ EnforceBasefee

Spec == Init /\ [][Next]_vars

\* The read-only methods, on pools of one more sender than Senders, built by
\* add_transaction and remove_transaction.  The methods read no fee and no
\* size, so a transaction's fee is fixed by its nonce.

QuerySenders == 0..(MaxSender + 1)
QueryIds == QuerySenders \X Nonces
QueryTransactions ==
    {ValidPoolTransaction(s, n, 1 + (n % MaxFee), 1) : s \in QuerySenders, n \in Nonces}

QueryAdd ==
    /\ pc = "ready"
    /\ submission_id < MaxAdds
    /\ \E tx \in QueryTransactions :
         \E r \in {add_transaction(Pool, tx)} :
            Effect(CallOf("add_transaction", TxId(tx), 0, NoLimit),
                   Result(r.pool, <<>>, r.panicked))

QueryRemove ==
    /\ pc = "ready"
    /\ \E id \in QueryIds :
         \E r \in {remove_transaction(Pool, id)} :
            Effect(CallOf("remove_transaction", id, 0, NoLimit),
                   Result(r.pool, r.ret, FALSE))

GetTxsBySender ==
    /\ pc = "ready"
    /\ \E sender \in QuerySenders :
         \E r \in {get_txs_by_sender(Pool, sender)} :
            Effect(CallOf("get_txs_by_sender", <<sender>>, 0, NoLimit),
                   Result(Pool, r, FALSE))

GetSendersBySubmissionId ==
    /\ pc = "ready"
    /\ \E r \in {get_senders_by_submission_id(Pool)} :
         Effect(CallOf("get_senders_by_submission_id", NoId, 0, NoLimit),
                Result(Pool, r, FALSE))

SatisfyBaseFeeTransactions ==
    /\ pc = "ready"
    /\ \E basefee \in Basefees :
         \E r \in {satisfy_base_fee_transactions(Pool, basefee)} :
            Effect(CallOf("satisfy_base_fee_transactions", NoId, basefee, NoLimit),
                   Result(Pool, r.ret, r.panicked))

NextQueries ==
    \/ QueryAdd
    \/ QueryRemove
    \/ GetTxsBySender
    \/ GetSendersBySubmissionId

SpecQueries == Init /\ [][NextQueries]_vars

\* The sweep at the ceiling (tests::test_enforce_parked_basefee and
\* tests::test_enforce_parked_basefee_descendant call enforce_basefee(u64::MAX)):
\* max_fee_per_gas is a u128, so a fee can reach and pass u64::MAX.

U64Max == U64Modulus - 1
CeilingFees == {1, U64Max - 1, U64Max, U64Max + 1}
CeilingNonces == 0..1
CeilingTransactions ==
    {ValidPoolTransaction(s, n, f, 1) :
        s \in Senders, n \in CeilingNonces, f \in CeilingFees}

CeilingAdd ==
    /\ pc = "ready"
    /\ submission_id < MaxAdds
    /\ \E tx \in CeilingTransactions :
         \E r \in {add_transaction(Pool, tx)} :
            Effect(CallOf("add_transaction", TxId(tx), 0, NoLimit),
                   Result(r.pool, <<>>, r.panicked))

CeilingEnforce ==
    /\ pc = "ready"
    /\ \E basefee \in {U64Max - 1, U64Max} :
         \E r \in {enforce_basefee(Pool, basefee)} :
            Effect(CallOf("enforce_basefee", NoId, basefee, NoLimit),
                   Result(r.pool, r.ret, r.panicked))

NextCeiling ==
    \/ CeilingAdd
    \/ CeilingEnforce

SpecCeiling == Init /\ [][NextCeiling]_vars

---------------------------------------------------------------------------
(* The scenario of tests::truncate_parked_by_submission_id and             *)
(* tests::test_senders_by_submission_id: senders hand in dependent chains  *)
(* (nonces 0, 1, ...), one sender after the other, and the pool is then    *)
(* truncated to TestMaxTxs transactions.                                   *)

TestSenderCount == 4
TestMaxChain == 4
TestMaxTxs == 4

ChainSenders == 0..(TestSenderCount - 1)

\* a transaction of MockTransactionSet::dependent
ChainTransaction(sender, nonce) == ValidPoolTransaction(sender, nonce, 1, 1)

\* the transaction added last (no transaction leaves the pool before the truncation)
LastAdded == CHOOSE k \in DOMAIN by_id : by_id[k].submission_id + 1 = submission_id

\* `for tx in all_txs { pool.add_transaction(f.validated_arc(tx)) }`: the next
\* transaction continues the current sender's chain or starts a new sender's
ChainAdd ==
    /\ pc = "ready"
    /\ op.name \in {"default", "add_transaction"}
    /\ \E sender \in ChainSenders, nonce \in 0..(TestMaxChain - 1) :
         /\ IF nonce = 0
            THEN sender \notin SendersOf(by_id)
            ELSE DOMAIN by_id # {} /\ LastAdded = <<sender, nonce - 1>>
         /\ \E r \in {add_transaction(Pool, ChainTransaction(sender, nonce))} :
               Effect(CallOf("add_transaction", <<sender, nonce>>, 0, NoLimit),
                      Result(r.pool, <<>>, r.panicked))

\* `pool.truncate_pool(SubPoolLimit { max_txs: 4, max_size: usize::MAX })`
ChainTruncate ==
    /\ pc = "ready"
    /\ op.name = "add_transaction"
    /\ \E limit \in {[max_txs |-> TestMaxTxs, max_size |-> UsizeModulus - 1]} :
         \E r \in {truncate_pool(Pool, limit, overflow_checks)} :
            Effect(CallOf("truncate_pool", NoId, 0, limit), r)

NextChain ==
    \/ ChainAdd
    \/ ChainTruncate

SpecChain == Init /\ [][NextChain]_vars

\* tests::test_senders_by_submission_id: the same insertions, then
\* `pool.get_senders_by_submission_id()`
ChainGetSenders ==
    /\ pc = "ready"
    /\ op.name = "add_transaction"
    /\ \E r \in {get_senders_by_submission_id(Pool)} :
         Effect(CallOf("get_senders_by_submission_id", NoId, 0, NoLimit),
                Result(Pool, r, FALSE))

NextSenders ==
    \/ ChainAdd
    \/ ChainGetSenders

SpecSenders == Init /\ [][NextSenders]_vars

---------------------------------------------------------------------------
(* satisfy_base_fee_transactions on the pools add_transaction and          *)
(* remove_transaction build.                                               *)

NextSatisfy ==
    \/ AddTransaction
    \/ RemoveTransaction
    \/ SatisfyBaseFeeTransactions

SpecSatisfy == Init /\ [][NextSatisfy]_vars

---------------------------------------------------------------------------
(* The wrap of the submission counter: one sender's nonce 0 stays resident *)
(* while its nonce 1 is added and removed again and again, each addition   *)
(* taking the next submission id.                                          *)

\* the transactions of the one sender, of equal fee
WrapTransaction(nonce) == ValidPoolTransaction(0, nonce, 1, 1)

WrapAdd ==
    /\ pc = "ready"
    /\ \E nonce \in 0..1 :
         /\ <<0, nonce>> \notin DOMAIN by_id
         /\ nonce = 1 => <<0, 0>> \in DOMAIN by_id
         /\ \E r \in {add_transaction(Pool, WrapTransaction(nonce))} :
               Effect(CallOf("add_transaction", <<0, nonce>>, 0, NoLimit),
                      Result(r.pool, <<>>, r.panicked))

WrapRemove ==
    /\ pc = "ready"
    /\ <<0, 1>> \in DOMAIN by_id
    /\ \E r \in {remove_transaction(Pool, <<0, 1>>)} :
         Effect(CallOf("remove_transaction", <<0, 1>>, 0, NoLimit),
                Result(r.pool, r.ret, FALSE))

NextWrap ==
    \/ WrapAdd
    \/ WrapRemove

SpecWrap == Init /\ [][NextWrap]_vars

---------------------------------------------------------------------------
(* QueuedOrd, the order of the queued sub-pool: cmp applied to every pair  *)
(* of transactions of the given fees and timestamps.                       *)

Timestamps == 0..MaxTimestamp

\* ValidPoolTransaction, as far as QueuedOrd reads it
QueuedTransactions ==
    {[max_fee_per_gas |-> f, timestamp |-> t] : f \in Fees, t \in Timestamps}

QueuedOrdCmp ==
    /\ pc = "ready"
    /\ \E a \in QueuedTransactions, b \in QueuedTransactions :
         \E r \in {QueuedOrd_cmp(a, b)} :
            Effect(CallOf("QueuedOrd::cmp", <<a, b>>, 0, NoLimit),
                   Result(Pool, <<r>>, FALSE))

NextQueuedOrd == QueuedOrdCmp

SpecQueuedOrd == Init /\ [][NextQueuedOrd]_vars

---------------------------------------------------------------------------
(* Properties.                                                             *)

RECURSIVE SumOfSizes(_, _)
SumOfSizes(m, keys) ==
    IF keys = {} THEN 0
    ELSE LET k == CHOOSE x \in keys : TRUE
         IN  m[k].transaction.size + SumOfSizes(m, keys \ {k})

\* the elements of a vector
Range(v) == {v[i] : i \in 1..Len(v)}

\* a call of the named method has just returned
Returned(name) == op.name = name /\ pc = "ready"

\* C1: by_id and best hold exactly the same entries (same transaction, same
\* submission_id) in every state reachable by add_transaction,
\* remove_transaction, truncate_pool and enforce_basefee; in particular
\* by_id.len() == best.len().
C1_Bijection ==
    /\ best = Entries(by_id)
    /\ Cardinality(best) = Cardinality(DOMAIN by_id)
    /\ \A k \in DOMAIN by_id : TxId(by_id[k].transaction) = k

\* C1 witness: after a removal the pool still holds two entries of equal fee,
\* which only their submission ids tell apart in best
C1_Witness ==
    /\ op.name \in {"remove_transaction", "truncate_pool", "enforce_basefee"}
    /\ Len(ret) > 0
    /\ \E e1, e2 \in best :
         /\ e1 # e2
         /\ e1.transaction.max_fee_per_gas = e2.transaction.max_fee_per_gas

\* C2: size() is the sum of size() over the resident transactions, in every
\* reachable state, and the counter never goes below zero on a removal.
C2_SizeConsistency ==
    /\ size(Pool) = SumOfSizes(by_id, DOMAIN by_id)
    /\ size(Pool) >= 0

\* C2 witness: a removal has happened and transactions of different sizes are
\* still resident
C2_Witness ==
    /\ op.name \in {"remove_transaction", "truncate_pool", "enforce_basefee"}
    /\ Len(ret) > 0
    /\ \E k1, k2 \in DOMAIN by_id :
         by_id[k1].transaction.size # by_id[k2].transaction.size

\* the newest submission id among sender s's entries in the map m
MaxSubmissionId(m, s) ==
    CHOOSE n \in {m[k].submission_id : k \in IdsOf(m, s)} :
        \A k \in IdsOf(m, s) : m[k].submission_id <= n

\* in this step sender s loses a resident transaction
Lost(s) == IdsOf(by_id, s) \ DOMAIN by_id' # {}

\* the positions in the vector v of sender s's transactions
PositionsOf(v, s) == {i \in 1..Len(v) : v[i].sender = s}

\* C3: after truncate_pool(limit) returns, len() <= limit.max_txs.
C3_LimitMet == Returned("truncate_pool") => len(Pool) <= op.limit.max_txs

\* C4: on a pool with len() > limit.max_txs, truncate_pool(limit) removes
\* exactly len() - limit.max_txs transactions: afterwards len() ==
\* limit.max_txs and the returned vector has that length.
C4_ExactOverflow ==
    [][(op'.name = "truncate_pool" /\ pc' = "ready"
            /\ len(Pool) > op'.limit.max_txs)
        => /\ Cardinality(DOMAIN by_id') = op'.limit.max_txs
           /\ Len(ret') = len(Pool) - op'.limit.max_txs]_vars

\* the pool of the test: A's four, B's three, C's three and D's one, inserted
\* in that order
TestPool(m) ==
    /\ DOMAIN m = ({0} \X (0..3)) \cup ({1, 2} \X (0..2)) \cup {<<3, 0>>}
    /\ MaxSubmissionId(m, 0) < MaxSubmissionId(m, 1)
    /\ MaxSubmissionId(m, 1) < MaxSubmissionId(m, 2)
    /\ MaxSubmissionId(m, 2) < MaxSubmissionId(m, 3)

TestRemoved == ({0} \X (0..3)) \cup ({1} \X (0..2))
TestParked == ({2} \X (0..2)) \cup {<<3, 0>>}

\* C5: truncate_pool processes the senders in ascending order of their newest
\* submission_id: a sender loses a transaction only if every sender whose
\* newest submission is older has lost one, and the returned vector lists the
\* older sender's transactions first.  On the test's pool (A4, B3, C3, D1,
\* max_txs = 4) exactly A's and B's seven transactions are removed and C's
\* three and D's one remain.
C5_OldestSendersFirst ==
    [][op'.name = "truncate_pool"
        => /\ \A s, t \in SendersOf(by_id) :
                (MaxSubmissionId(by_id, s) < MaxSubmissionId(by_id, t) /\ Lost(t))
                => /\ Lost(s)
                   /\ \A i \in PositionsOf(ret', s), j \in PositionsOf(ret', t) : i < j
           /\ TestPool(by_id)
                => /\ pc' = "ready"
                   /\ DOMAIN by_id' = TestParked
                   /\ Len(ret') = 7
                   /\ {TxId(tx) : tx \in Range(ret')} = TestRemoved]_vars

\* C5 witness: the test's truncation has happened
C5_Witness ==
    /\ Returned("truncate_pool")
    /\ DOMAIN by_id = TestParked
    /\ by_id[<<2, 0>>].submission_id = 7
    /\ by_id[<<3, 0>>].submission_id = 10
    /\ Len(ret) = 7
    /\ {TxId(tx) : tx \in Range(ret)} = TestRemoved

\* the resident senders whose newest submission is the newest / the oldest
MostRecentSenders(m) ==
    {s \in SendersOf(m) :
        \A t \in SendersOf(m) : MaxSubmissionId(m, t) <= MaxSubmissionId(m, s)}
LeastRecentSenders(m) ==
    {s \in SendersOf(m) :
        \A t \in SendersOf(m) : MaxSubmissionId(m, s) <= MaxSubmissionId(m, t)}

\* C6 (as claimed): the first sender truncate_pool pops for eviction is the
\* most-recently-active one, the sender whose maximum submission_id is the
\* greatest.
C6_MostRecentFirst ==
    [][(op'.name = "truncate_pool" /\ by_id' # by_id)
        => /\ \E s \in MostRecentSenders(by_id) : Lost(s)
           /\ (pc' = "ready" => ret'[1].sender \in MostRecentSenders(by_id))]_vars

\* C6 (amended): the first sender truncate_pool pops for eviction is the
\* least-recently-active one, the sender whose maximum submission_id is the
\* smallest.
C6_LeastRecentFirst ==
    [][(op'.name = "truncate_pool" /\ by_id' # by_id)
        => /\ \E s \in LeastRecentSenders(by_id) : Lost(s)
           /\ (pc' = "ready" => ret'[1].sender \in LeastRecentSenders(by_id))]_vars

\* C6 witness: a truncation has evicted from one sender and left another
\* sender's transactions in the pool
C6_Witness ==
    /\ Returned("truncate_pool")
    /\ Len(ret) > 0
    /\ \E k \in DOMAIN by_id : k[1] # ret[1].sender

\* C7: truncate_pool never removes a transaction while a transaction of the
\* same sender with a higher nonce stays resident.
C7_OnlyNonceTails ==
    [][op'.name = "truncate_pool"
        => \A k \in DOMAIN by_id \ DOMAIN by_id' :
              \A k2 \in DOMAIN by_id' : ~(k2[1] = k[1] /\ k2[2] > k[2])]_vars

\* the ids of the map m that clear basefee together with every resident
\* transaction of the same sender and a lower nonce
SatisfyingPrefixes(m, basefee) ==
    {k \in DOMAIN m :
        \A k2 \in IdsOf(m, k[1]) :
            k2[2] <= k[2] => m[k2].transaction.max_fee_per_gas >= basefee}

\* C8: for every pool and basefee, satisfy_base_fee_ids returns, for each
\* sender, exactly the longest prefix (ascending nonce) of its resident
\* transactions whose fees are all >= basefee, each id once; a transaction
\* behind a same-sender transaction of fee < basefee is never returned.  With
\* nonce 0 at fee F and nonce 1 at fee F-1, basefee F selects nonce 0 alone and
\* basefee F-1 selects both.
C8_NonceDependentSweep ==
    \A basefee \in Basefees :
        LET ids == satisfy_base_fee_ids(Pool, basefee)
        IN  /\ Range(ids) = SatisfyingPrefixes(by_id, basefee)
            /\ Len(ids) = Cardinality(Range(ids))
            /\ \A s \in SendersOf(by_id) :
                 (/\ IdsOf(by_id, s) = {<<s, 0>>, <<s, 1>>}
                  /\ by_id[<<s, 0>>].transaction.max_fee_per_gas
                        = by_id[<<s, 1>>].transaction.max_fee_per_gas + 1)
                 => /\ basefee = by_id[<<s, 0>>].transaction.max_fee_per_gas
                        => Range(ids) \cap IdsOf(by_id, s) = {<<s, 0>>}
                    /\ basefee = by_id[<<s, 1>>].transaction.max_fee_per_gas
                        => Range(ids) \cap IdsOf(by_id, s) = IdsOf(by_id, s)

\* C8 witness: a sweep has run and left behind a transaction whose own fee
\* clears the basefee, parked behind a lower nonce of its sender
C8_Witness ==
    /\ Returned("enforce_basefee")
    /\ \E k \in DOMAIN by_id :
         /\ by_id[k].transaction.max_fee_per_gas >= op.basefee
         /\ \E k2 \in IdsOf(by_id, k[1]) :
              /\ k2[2] < k[2]
              /\ by_id[k2].transaction.max_fee_per_gas < op.basefee

C10_SweepIdempotent ==
    [][(Returned("enforce_basefee") /\ op' = op)
        => (ret' = <<>> /\ Pool' = Pool /\ pc' = "ready")]_vars

\* C10 witness: the sweep has been repeated on a pool that still holds a
\* transaction whose own fee clears the basefee
C10_Witness ==
    /\ Returned("enforce_basefee")
    /\ repeated
    /\ \E k \in DOMAIN by_id : by_id[k].transaction.max_fee_per_gas >= op.basefee

\* C15: add_transaction with a transaction whose id is already resident panics
\* and does not replace: the panic comes before any mutation, so by_id, best,
\* size_of and the submission counter are unchanged.
C15_DuplicateAddPanics ==
    [][(op'.name = "add_transaction" /\ op'.id \in DOMAIN by_id)
        => (pc' = "panicked" /\ Pool' = Pool)]_vars

\* C15 witness: an add_transaction of a resident id has panicked on a pool of
\* several transactions
C15_Witness ==
    /\ pc = "panicked"
    /\ op.name = "add_transaction"
    /\ op.id \in DOMAIN by_id
    /\ Cardinality(DOMAIN by_id) > 1

\* C16: remove_transaction(id) with an id that is not resident returns None and
\* leaves by_id, best, size_of and the submission counter unchanged, however
\* many times it is repeated.
C16_RemoveAbsent ==
    [][(op'.name = "remove_transaction" /\ op'.id \notin DOMAIN by_id)
        => (ret' = <<>> /\ Pool' = Pool /\ pc' = "ready")]_vars

\* C16 witness: the removal of an absent id has been repeated on a pool that
\* holds transactions
C16_Witness ==
    /\ Returned("remove_transaction")
    /\ repeated
    /\ ret = <<>>
    /\ op.id \notin DOMAIN by_id
    /\ DOMAIN by_id # {}

\* C17: remove_transaction(id) with a resident id returns the transaction stored
\* under id, removes exactly that entry from by_id and from best, decreases
\* size() by that transaction's size and leaves every other entry and the
\* submission counter unchanged.
C17_RemoveResident ==
    [][(op'.name = "remove_transaction" /\ op'.id \in DOMAIN by_id)
        => /\ pc' = "ready"
           /\ ret' = <<by_id[op'.id].transaction>>
           /\ DOMAIN by_id' = DOMAIN by_id \ {op'.id}
           /\ \A k \in DOMAIN by_id' : by_id'[k] = by_id[k]
           /\ best' = best \ {by_id[op'.id]}
           /\ Cardinality(best') = Cardinality(best) - 1
           /\ size_of' = size_of - by_id[op'.id].transaction.size
           /\ submission_id' = submission_id]_vars

\* C17 witness: a resident transaction has been removed and one of the same fee
\* and another size is still resident
C17_Witness ==
    /\ Returned("remove_transaction")
    /\ Len(ret) = 1
    /\ \E k \in DOMAIN by_id :
         /\ by_id[k].transaction.max_fee_per_gas = ret[1].max_fee_per_gas
         /\ by_id[k].transaction.size # ret[1].size

\* the last two calls were add_transaction(t) and remove_transaction(t.id())
RoundTrip == Returned("remove_transaction") /\ Len(ret) = 1 /\ before # <<>>

\* C18 (as claimed): after add_transaction(t) and remove_transaction(t.id()), t's
\* id not resident before, the pool state equals the state before the add in
\* all of by_id, best, size_of and submission_id.
C18_RoundTrip == RoundTrip => Pool = before[1]

\* C18 (amended): after add_transaction(t) and remove_transaction(t.id()), by_id,
\* best and size_of equal their values before the add, and submission_id is
\* one more (wrapping) than before the add.
C18_RoundTripButCounter ==
    RoundTrip
    => /\ by_id = before[1].by_id
       /\ best = before[1].best
       /\ size_of = before[1].size_of
       /\ submission_id = (before[1].submission_id + 1) % U64Modulus

\* C18 witness: a transaction has been added to a pool of two transactions and
\* removed again
C18_Witness ==
    /\ RoundTrip
    /\ Cardinality(DOMAIN by_id) = 2

\* C19: each successful add_transaction stamps the entry with the counter's
\* current value and advances the counter by one, so (the counter not having
\* wrapped) the resident submission_ids are pairwise distinct, each is smaller
\* than the counter, and an entry added later has a larger submission_id than
\* every entry added earlier; remove_transaction, truncate_pool and
\* enforce_basefee change neither the counter nor a resident entry's
\* submission_id.
C19_SubmissionOrder ==
    [][/\ (op'.name = "add_transaction" /\ pc' = "ready")
            => /\ by_id'[op'.id].submission_id = submission_id
               /\ submission_id' = submission_id + 1
               /\ \A k \in DOMAIN by_id :
                    /\ by_id'[k] = by_id[k]
                    /\ by_id[k].submission_id < by_id'[op'.id].submission_id
       /\ op'.name \in {"remove_transaction", "truncate_pool", "enforce_basefee"}
            => /\ submission_id' = submission_id
               /\ \A k \in DOMAIN by_id' :
                    /\ k \in DOMAIN by_id
                    /\ by_id'[k].submission_id = by_id[k].submission_id
       /\ \A k \in DOMAIN by_id' : by_id'[k].submission_id < submission_id'
       /\ \A k1, k2 \in DOMAIN by_id' :
            k1 # k2 => by_id'[k1].submission_id # by_id'[k2].submission_id]_vars

\* C19 witness: a transaction has been added after a removal, so the resident
\* submission_ids have a gap
C19_Witness ==
    /\ Returned("add_transaction")
    /\ Cardinality(DOMAIN by_id) = 2
    /\ {by_id[k].submission_id : k \in DOMAIN by_id} = {0, 2}

\* the sender ids of a vector of SubmissionSenderId records
SenderIds(v) == [i \in 1..Len(v) |-> v[i].sender_id]

\* C11 (as claimed): for every reachable pool, whatever the max_fee_per_gas of
\* its resident transactions, enforce_basefee(u64::MAX) returns an empty vector
\* and mutates nothing.
C11_CeilingSweepsNothing ==
    [][(op'.name = "enforce_basefee" /\ op'.basefee = U64Max)
        => (ret' = <<>> /\ Pool' = Pool /\ pc' = "ready")]_vars

\* C11 (amended): for every reachable pool whose resident transactions all have
\* max_fee_per_gas < u64::MAX, enforce_basefee(u64::MAX) returns an empty
\* vector and mutates nothing.
C11_CeilingSweepsNothingBelow ==
    [][(/\ op'.name = "enforce_basefee"
        /\ op'.basefee = U64Max
        /\ \A k \in DOMAIN by_id : by_id[k].transaction.max_fee_per_gas < U64Max)
        => (ret' = <<>> /\ Pool' = Pool /\ pc' = "ready")]_vars

\* C11 witness: the sweep at u64::MAX has run on a pool of several
\* transactions, one of them a single unit of fee below the ceiling
C11_Witness ==
    /\ Returned("enforce_basefee")
    /\ op.basefee = U64Max
    /\ ret = <<>>
    /\ Cardinality(DOMAIN by_id) > 1
    /\ \E k \in DOMAIN by_id : by_id[k].transaction.max_fee_per_gas = U64Max - 1
    /\ \A k \in DOMAIN by_id : by_id[k].transaction.max_fee_per_gas < U64Max

\* C12: get_senders_by_submission_id returns exactly one record for every
\* sender with a resident transaction (none twice, none missing, no
\* non-resident sender), and each record's submission_id is the maximum
\* submission_id among that sender's resident transactions.
C12_OneRecordPerSender ==
    [][op'.name = "get_senders_by_submission_id"
        => /\ pc' = "ready"
           /\ Range(SenderIds(ret')) = SendersOf(by_id)
           /\ Len(ret') = Cardinality(SendersOf(by_id))
           /\ \A i \in 1..Len(ret') :
                ret'[i].submission_id = MaxSubmissionId(by_id, ret'[i].sender_id)]_vars

\* C12 witness: the senders were listed for a pool of two senders, one of them
\* with a lower nonce submitted after a higher one
C12_Witness ==
    /\ Returned("get_senders_by_submission_id")
    /\ Len(ret) = 2
    /\ \E k1, k2 \in DOMAIN by_id :
         /\ k1[1] = k2[1]
         /\ k1[2] < k2[2]
         /\ by_id[k1].submission_id > by_id[k2].submission_id

SinglesPool(m) ==
    /\ DOMAIN m = (0..3) \X {0}
    /\ m[<<3, 0>>].submission_id < m[<<1, 0>>].submission_id
    /\ m[<<1, 0>>].submission_id < m[<<2, 0>>].submission_id
    /\ m[<<2, 0>>].submission_id < m[<<0, 0>>].submission_id

C20_TxsOfSender ==
    [][op'.name = "get_txs_by_sender"
        => /\ pc' = "ready"
           /\ Pool' = Pool
           /\ Range(ret') = IdsOf(by_id, op'.id[1])
           /\ Len(ret') = Cardinality(IdsOf(by_id, op'.id[1]))
           /\ \A i, j \in 1..Len(ret') : i < j => ret'[i][2] < ret'[j][2]
           /\ IdsOf(by_id, op'.id[1]) = {} => ret' = <<>>]_vars

\* C20 witness: the transactions of a sender with two of them were listed while
\* a sender of a higher id was resident
C20_Witness ==
    /\ Returned("get_txs_by_sender")
    /\ Len(ret) = 2
    /\ \E k \in DOMAIN by_id : k[1] > op.id[1]

\* C21: QueuedOrd compares by max_fee_per_gas first and by timestamp only when
\* the fees are equal: transactions of different fees never compare Equal and
\* the higher fee is Greater; of two transactions of equal fee the one with the
\* lower (older) timestamp is Greater.
C21_FeeThenTimestamp ==
    Returned("QueuedOrd::cmp")
    => LET a == op.id[1]
           b == op.id[2]
       IN  /\ a.max_fee_per_gas # b.max_fee_per_gas
                => ret[1] = IntCmp(a.max_fee_per_gas, b.max_fee_per_gas)
           /\ a.max_fee_per_gas = b.max_fee_per_gas
                => ret[1] = IntCmp(b.timestamp, a.timestamp)

C23_ReturnsRemoved ==
    [][(op'.name = "truncate_pool" /\ pc' = "ready")
        => LET gone == DOMAIN by_id \ DOMAIN by_id'
           IN  /\ Len(ret') = Cardinality(gone)
               /\ Range(ret') = {by_id[k].transaction : k \in gone}
               /\ \A i \in 1..Len(ret') : TxId(ret'[i]) \notin DOMAIN by_id'
               /\ \A i, j \in 1..Len(ret') :
                    i < j => IF ret'[i].sender = ret'[j].sender
                             THEN ret'[i].nonce < ret'[j].nonce
                             ELSE MaxSubmissionId(by_id, ret'[i].sender)
                                    < MaxSubmissionId(by_id, ret'[j].sender)]_vars

\* C23 witness: a truncation has returned transactions of two senders and left
\* one resident
C23_Witness ==
    /\ Returned("truncate_pool")
    /\ Len(ret) = 2
    /\ ret[1].sender # ret[2].sender
    /\ DOMAIN by_id # {}

\* sender s holds exactly nonce 0 and nonce 1 in the map m, nonce 1 bidding one
\* unit of fee less than nonce 0
DescendantPair(m, s) ==
    /\ IdsOf(m, s) = {<<s, 0>>, <<s, 1>>}
    /\ m[<<s, 0>>].transaction.max_fee_per_gas
         = m[<<s, 1>>].transaction.max_fee_per_gas + 1

\* C25 (as claimed): with nonce 0 at fee F and nonce 1 at fee F-1 of one sender
\* resident, enforce_basefee(F) removes both transactions.
C25_RootFeeRemovesBoth ==
    [][op'.name = "enforce_basefee"
        => \A s \in SendersOf(by_id) :
              (/\ DescendantPair(by_id, s)
               /\ op'.basefee = by_id[<<s, 0>>].transaction.max_fee_per_gas)
              => /\ IdsOf(by_id', s) = {}
                 /\ {by_id[<<s, 0>>].transaction, by_id[<<s, 1>>].transaction}
                        \subseteq Range(ret')]_vars

\* C25 (amended): with nonce 0 at fee F and nonce 1 at fee F-1 of one sender
\* resident, enforce_basefee(F) removes nonce 0 alone and nonce 1 stays
\* resident; enforce_basefee(F-1) removes both.
C25_RootFeeRemovesRoot ==
    [][op'.name = "enforce_basefee"
        => \A s \in SendersOf(by_id) :
              DescendantPair(by_id, s)
              => /\ op'.basefee = by_id[<<s, 0>>].transaction.max_fee_per_gas
                    => /\ IdsOf(by_id', s) = {<<s, 1>>}
                       /\ by_id'[<<s, 1>>] = by_id[<<s, 1>>]
                       /\ by_id[<<s, 0>>].transaction \in Range(ret')
                       /\ by_id[<<s, 1>>].transaction \notin Range(ret')
                 /\ op'.basefee = by_id[<<s, 1>>].transaction.max_fee_per_gas
                    => /\ IdsOf(by_id', s) = {}
                       /\ {by_id[<<s, 0>>].transaction, by_id[<<s, 1>>].transaction}
                              \subseteq Range(ret')]_vars

\* C25 witness: a sweep at nonce 0's fee has returned nonce 0 and left the
\* sender's nonce 1, of one unit of fee less, resident
C25_Witness ==
    /\ Returned("enforce_basefee")
    /\ \E s \in Senders :
         /\ IdsOf(by_id, s) = {<<s, 1>>}
         /\ by_id[<<s, 1>>].transaction.max_fee_per_gas + 1 = op.basefee
         /\ \E i \in 1..Len(ret) :
              /\ TxId(ret[i]) = <<s, 0>>
              /\ ret[i].max_fee_per_gas = op.basefee

\* C26: when the sender truncate_pool processes has more resident transactions
\* than the remaining drop, exactly its drop highest-nonce transactions are
\* removed, its count - drop lowest-nonce ones stay and no further sender is
\* touched (stated for the first sender processed, where drop is
\* len() - limit.max_txs).
C26_PartialRemovesTail ==
    [][(op'.name = "truncate_pool" /\ len(Pool) > op'.limit.max_txs)
        => \A s \in LeastRecentSenders(by_id) :
              LET drop == len(Pool) - op'.limit.max_txs
                  ids == IdsOf(by_id, s)
              IN  Cardinality(ids) > drop
                  => /\ pc' = "ready"
                     /\ DOMAIN by_id \ DOMAIN by_id'
                          = {k \in ids :
                                Cardinality({k2 \in ids : k2[2] > k[2]}) < drop}]_vars

\* C27: truncate_pool never panics and its drop counter never underflows.
C27_NoUnderflow ==
    op.name = "truncate_pool" => (pc = "ready" /\ ~stats.underflow)

\* C28: best of a BasefeeOrd pool is ordered by max_fee_per_gas ascending (the
\* higher fee is Greater); of two entries of equal fee the one with the smaller
\* submission_id is Greater; two distinct resident entries never compare Equal.
C28_EntryOrder ==
    \A e1, e2 \in best :
        LET c == ParkedPoolTransaction_cmp(e1, e2)
            f1 == e1.transaction.max_fee_per_gas
            f2 == e2.transaction.max_fee_per_gas
        IN  /\ f1 < f2 => c = Less
            /\ f1 > f2 => c = Greater
            /\ (f1 = f2 /\ e1.submission_id < e2.submission_id) => c = Greater
            /\ (f1 = f2 /\ e1.submission_id > e2.submission_id) => c = Less
            /\ e1 # e2 => c # Equal

\* C28 witness: an add_transaction has left three entries in best, two of them
\* of equal fee
C28_Witness ==
    /\ Returned("add_transaction")
    /\ Cardinality(best) = 3
    /\ \E e1, e2, e3 \in best :
         /\ e1 # e2
         /\ e1.transaction.max_fee_per_gas = e2.transaction.max_fee_per_gas
         /\ e3.transaction.max_fee_per_gas # e1.transaction.max_fee_per_gas

\* C24: satisfy_base_fee_transactions(b) leaves the pool unchanged and returns
\* the transactions of exactly the ids satisfy_base_fee_ids(b) selects, the set
\* enforce_basefee(b) would remove from the same state; its
\* expect("transaction exists") does not fail.
C24_NonDestructive ==
    [][op'.name = "satisfy_base_fee_transactions"
        => LET ids == satisfy_base_fee_ids(Pool, op'.basefee)
           IN  /\ pc' = "ready"
               /\ Pool' = Pool
               /\ Len(ret') = Len(ids)
               /\ \A i \in 1..Len(ids) : ret'[i] = by_id[ids[i]].transaction
               /\ Range(ret') = Range(enforce_basefee(Pool, op'.basefee).ret)]_vars

\* C24 witness: the call has returned some of the resident transactions, not
\* all, and they are still resident
C24_Witness ==
    /\ Returned("satisfy_base_fee_transactions")
    /\ Len(ret) > 0
    /\ Len(ret) < len(Pool)
    /\ \A i \in 1..Len(ret) :
         /\ TxId(ret[i]) \in DOMAIN by_id
         /\ by_id[TxId(ret[i])].transaction = ret[i]

\* the basefees the fees are held against: the least, and those at the ceiling
CeilingBasefees == {0, 1, U64Max - 1, U64Max}

\* C29: the base-fee test is max_fee_per_gas < basefee, strict, in 128-bit
\* arithmetic after widening the 64-bit basefee: a transaction with
\* max_fee_per_gas == basefee is selected, and one with max_fee_per_gas >=
\* 2^64 - 1 is selected by every basefee, its fee not truncated to 64 bits
\* (stated for each sender's lowest resident nonce, which no other transaction
\* hides).
C29_StrictWideComparison ==
    [][op'.name = "enforce_basefee"
        => \A k \in DOMAIN by_id :
              (\A k2 \in IdsOf(by_id, k[1]) : k[2] <= k2[2])
              => LET fee == by_id[k].transaction.max_fee_per_gas
                 IN  /\ k \notin DOMAIN by_id' <=> fee >= op'.basefee
                     /\ fee = op'.basefee => by_id[k].transaction \in Range(ret')
                     /\ fee >= U64Max
                          => \A b \in CeilingBasefees :
                                k \in Range(satisfy_base_fee_ids(Pool, b))]_vars

\* C29 witness: a sweep has returned a transaction whose fee equals the basefee
\* and one whose fee is above u64::MAX
C29_Witness ==
    /\ Returned("enforce_basefee")
    /\ \E i, j \in 1..Len(ret) :
         /\ ret[i].max_fee_per_gas = op.basefee
         /\ ret[j].max_fee_per_gas = U64Max + 1

\* in this step, an add_transaction at the counter's maximum stamps the entry
\* with the maximum and sets the counter to 0
WrapsToZero ==
    (op'.name = "add_transaction" /\ submission_id = U64Max)
    => /\ pc' = "ready"
       /\ by_id'[op'.id].submission_id = U64Max
       /\ submission_id' = 0

\* no two resident entries share a submission_id, and best holds by_id's entries
NoCollision ==
    /\ \A k1, k2 \in DOMAIN by_id :
         k1 # k2 => by_id[k1].submission_id # by_id[k2].submission_id
    /\ best = Entries(by_id)
    /\ Cardinality(best) = Cardinality(DOMAIN by_id)

\* C30: at the counter's maximum add_transaction does not fail, stamps the
\* entry with the maximum and sets the counter to 0; and a submission_id
\* assigned after a wrap never collides with that of a live entry, so by_id and
\* best still hold the same entries after the wrap.
C30_WrapKeepsBijection == [][WrapsToZero /\ NoCollision']_vars

\* C31: every transaction add_transaction accepted is at every later point
\* either resident or has been handed back exactly once by remove_transaction,
\* truncate_pool or enforce_basefee: in every step the transactions that leave
\* the pool are exactly those the call returns, each once, none of them still
\* resident, and the transactions that stay are untouched.
C31_Conservation ==
    [][LET gone == DOMAIN by_id \ DOMAIN by_id'
       IN  /\ Range(ret') = {by_id[k].transaction : k \in gone}
           /\ Len(ret') = Cardinality(gone)
           /\ \A i \in 1..Len(ret') : TxId(ret'[i]) \notin DOMAIN by_id'
           /\ \A k \in DOMAIN by_id \ gone :
                by_id'[k].transaction = by_id[k].transaction]_vars

\* C32: truncate_pool terminates: its loop consumes one sender record per
\* iteration and makes at most as many iterations as there are distinct
\* resident senders when the call starts.
C32_IterationsBounded ==
    [][op'.name = "truncate_pool"
        => stats'.iterations <= Cardinality(SendersOf(by_id))]_vars

\* C32 witness: a truncation has gone through two senders and left
\* transactions resident
C32_Witness ==
    /\ Returned("truncate_pool")
    /\ stats.iterations = 2
    /\ DOMAIN by_id # {}
===========================================================================
